---------------------------- MODULE Spec2Model ----------------------------
(***************************************************************************)
(* Pixload Darkroom (src/main.py): the /convert request handler as a state *)
(* machine.  One request is handled at a time (requests share no state but *)
(* the scratch disk); a client may send a request and then re-send it.     *)
(* The image engine, the object storage and the network are environment:   *)
(* their outcomes are nondeterministic choices.                            *)
(***************************************************************************)
EXTENDS Integers, Sequences, FiniteSets, TLC

(***************************************************************************)
(* Optional values (Python None / a value) and Python truthiness.          *)
(***************************************************************************)
None == <<>>
Some(v) == <<v>>
TruthyStr(o) == o # None /\ o[1] # ""
TruthyInt(o) == o # None /\ o[1] # 0
TruthyObj(o) == o # None

(***************************************************************************)
(* Module-level configuration (environment defaults).                      *)
(***************************************************************************)
AUTH_TOKEN == "changeme"
PUBLIC_BASE_URL == "https://cdn.pixload.events"
MAGICK_THREAD_LIMIT == "1"
MIME_TYPES ==
    [jpg |-> "image/jpeg", jpeg |-> "image/jpeg", png |-> "image/png",
     webp |-> "image/webp", avif |-> "image/avif", heic |-> "image/heic"]

(***************************************************************************)
(* Python string methods used by the handler.                              *)
(***************************************************************************)
StartsWith(s, p) == Len(s) >= Len(p) /\ SubSeq(s, 1, Len(p)) = p

RECURSIVE LStrip(_, _)
LStrip(s, ch) ==
    IF Len(s) > 0 /\ Head(s) = ch THEN LStrip(Tail(s), ch) ELSE s

RECURSIVE RStrip(_, _)
RStrip(s, ch) ==
    IF Len(s) > 0 /\ SubSeq(s, Len(s), Len(s)) = ch
    THEN RStrip(SubSeq(s, 1, Len(s) - 1), ch)
    ELSE s

Strip(s, ch) == RStrip(LStrip(s, ch), ch)

\* s.replace(old, new): every non-overlapping occurrence, left to right
RECURSIVE Replace(_, _, _)
Replace(s, old, new) ==
    IF Len(s) = 0 THEN s
    ELSE IF StartsWith(s, old)
         THEN new \o Replace(SubSeq(s, Len(old) + 1, Len(s)), old, new)
         ELSE Head(s) \o Replace(Tail(s), old, new)

\* s.split(sep)[-1]: what follows the last separator
RECURSIVE LastSegment(_, _)
LastSegment(s, sep) ==
    IF Len(s) = 0 THEN s
    ELSE LET rest == LastSegment(Tail(s), sep)
         IN  IF Len(rest) < Len(s) - 1 THEN rest
             ELSE IF Head(s) = sep THEN rest
             ELSE s

(***************************************************************************)
(* calculate_sha256: hashlib's SHA-256 hex digest of a file's bytes.  The  *)
(* byte strings that occur in the model are listed with their digests.     *)
(***************************************************************************)
Sources == {"abc", "hello"}
Outputs == {"out-1", "out-2"}

calculate_sha256(bytes) ==
    CASE bytes = "abc"   -> "ba7816bf8f01cfea414140de5dae2223b00361a396177a9cb410ff61f20015ad"
      [] bytes = "hello" -> "2cf24dba5fb0a30e26e83b2ac5b9e29e1b161e5c1fa7425e73043362938b9824"
      [] bytes = "out-1" -> "f44c30d07d331c6ff6aeb64dc4a63070c1cc002946e49019617cd18e5211a6f6"
      [] bytes = "out-2" -> "bc432967b5a6d005763af7a1bb0503b18af38bdba046744ad9722b02d8a0ecb6"

(***************************************************************************)
(* IEEE-754 binary64 arithmetic of  int(target_width * (overlay_scale /    *)
(* 100)).  A significand is a sequence of bits, most significant first.    *)
(***************************************************************************)
MantissaBits == 53
LimbBits == 14
Abs(n) == IF n < 0 THEN -n ELSE n
Pow2(n) == IF n <= 0 THEN 1 ELSE 2 ^ n

\* 2^e mod m, by repeated squaring
RECURSIVE PowMod2(_, _)
PowMod2(e, m) ==
    IF e = 0 THEN 1 % m
    ELSE LET h == PowMod2(e \div 2, m)
         IN  (h * h * (IF e % 2 = 1 THEN 2 ELSE 1)) % m

\* the n-bit representation of v, and the value of a short bit sequence
IntBits(v, n) == [i \in 1..n |-> (v \div Pow2(n - i)) % 2]

RECURSIVE BitsToInt(_)
BitsToInt(b) ==
    IF Len(b) = 0 THEN 0
    ELSE 2 * BitsToInt(SubSeq(b, 1, Len(b) - 1)) + b[Len(b)]

PadLeft(b, n) ==
    [i \in 1..n |-> IF i <= n - Len(b) THEN 0 ELSE b[i - (n - Len(b))]]

StripZeros(b) ==
    IF \A i \in 1..Len(b) : b[i] = 0 THEN <<>>
    ELSE LET p == CHOOSE i \in 1..Len(b) :
                      b[i] = 1 /\ \A j \in 1..(i - 1) : b[j] = 0
         IN  SubSeq(b, p, Len(b))

\* the bit sequence plus one
BitsInc(b) ==
    IF \A i \in 1..Len(b) : b[i] = 1
    THEN <<1>> \o [i \in 1..Len(b) |-> 0]
    ELSE LET p == CHOOSE i \in 1..Len(b) :
                      b[i] = 0 /\ \A j \in (i + 1)..Len(b) : b[j] = 1
         IN  [i \in 1..Len(b) |-> IF i < p THEN b[i] ELSE IF i = p THEN 1 ELSE 0]

\* round a bit sequence to its first MantissaBits bits, ties to even;
\* sticky: a nonzero remainder lies below the last bit of b
RoundBits(b, sticky) ==
    IF Len(b) <= MantissaBits THEN b
    ELSE LET keep == SubSeq(b, 1, MantissaBits)
             rest == SubSeq(b, MantissaBits + 1, Len(b))
             half == rest[1] = 1
             more == sticky \/ \E i \in 2..Len(rest) : rest[i] = 1
             up   == half /\ (more \/ keep[MantissaBits] = 1)
         IN  IF up THEN BitsInc(keep) ELSE keep

\* the first n quotient bits of num / den, for den <= num < 2 * den: bit i
\* is floor(num * 2^(i-1) / den) mod 2
DivBits(num, den, n) ==
    [i \in 1..n |->
        IF i = 1 THEN num \div den
        ELSE (2 * ((num * PowMod2(i - 2, den)) % den)) \div den]

\* the remainder left below the n-th quotient bit
DivRem(num, den, n) == (num * PowMod2(n - 1, den)) % den

\* binary exponent of num / den: the k with 2^k <= num / den < 2^(k+1)
RECURSIVE Exponent(_, _)
Exponent(num, den) ==
    IF num >= 2 * den THEN 1 + Exponent(num, 2 * den)
    ELSE IF num < den THEN Exponent(2 * num, den) - 1
    ELSE 0

\* a / b for positive integers, correctly rounded: [bits, exp] standing for
\* value(bits) * 2^(exp - Len(bits) + 1)
FloatDiv(a, b) ==
    LET k    == Exponent(a, b)
        num  == a * Pow2(-k)
        den  == b * Pow2(k)
        raw  == DivBits(num, den, MantissaBits + 1)
        rem  == DivRem(num, den, MantissaBits + 1)
        bits == RoundBits(raw, rem # 0)
    IN  [bits |-> bits, exp |-> k + (Len(bits) - MantissaBits)]

\* bits * n exactly, for 0 < n < 2^LimbBits and at most 4 limbs of bits
MulBits(b, n) ==
    LET w    == Pow2(LimbBits)
        p    == PadLeft(b, 4 * LimbBits)
        l(k) == BitsToInt(SubSeq(p, LimbBits * (k - 1) + 1, LimbBits * k))
        t4   == l(4) * n
        t3   == l(3) * n + t4 \div w
        t2   == l(2) * n + t3 \div w
        t1   == l(1) * n + t2 \div w
    IN  StripZeros(IntBits(t1 \div w, LimbBits) \o IntBits(t1 % w, LimbBits)
                   \o IntBits(t2 % w, LimbBits) \o IntBits(t3 % w, LimbBits)
                   \o IntBits(t4 % w, LimbBits))

\* n * f for a positive integer n and a float f, correctly rounded
FloatMul(n, f) ==
    LET prod == MulBits(f.bits, n)
        bits == RoundBits(prod, FALSE)
        e    == f.exp + (Len(prod) - Len(f.bits))
    IN  [bits |-> bits,
         exp |-> e + (IF Len(prod) > MantissaBits
                      THEN Len(bits) - MantissaBits ELSE 0)]

\* int(x) of a non-negative float: the integer part
FloatTrunc(f) ==
    IF f.exp < 0 THEN 0
    ELSE BitsToInt(SubSeq(f.bits, 1, f.exp + 1))

\* int(target_width * (overlay_scale / 100)), truncating towards zero
ScaledWidth(target_width, overlay_scale) ==
    IF target_width = 0 \/ overlay_scale = 0 THEN 0
    ELSE LET mag == FloatTrunc(FloatMul(Abs(target_width),
                                        FloatDiv(Abs(overlay_scale), 100)))
         IN  IF (target_width < 0) # (overlay_scale < 0) THEN -mag ELSE mag

\* str(overlay_opacity / 100.0): the shortest decimal that reads back
FactorStr(overlay_opacity) ==
    LET n  == Abs(overlay_opacity)
        hi == (n % 100) \div 10
        lo == n % 10
    IN  (IF overlay_opacity < 0 THEN "-" ELSE "")
        \o ToString(n \div 100) \o "." \o ToString(hi)
        \o (IF lo = 0 THEN "" ELSE ToString(lo))

(***************************************************************************)
(* The request: the form fields of convert(), with their defaults.         *)
(***************************************************************************)
MaxRequests == 2

Formats == DOMAIN MIME_TYPES \cup {"bmp"}

FormDefaults ==
    [file |-> None, src_url |-> None, token |-> AUTH_TOKEN, format |-> "jpg",
     q |-> 80, size |-> None, square |-> FALSE, strip_exif |-> FALSE,
     overlay_url |-> None, overlay_scale |-> 15, overlay_safe_zone |-> TRUE,
     overlay_opacity |-> 100, upload_s3 |-> FALSE, key_name |-> None,
     key_prefix |-> None, return_binary |-> FALSE, avif_speed |-> "6"]

CommonFields ==
    [file : {None, Some("abc")}, src_url : {None, Some("http://src/a")},
     token : {AUTH_TOKEN, "guess"}, format : Formats]

\* what the command is built from; the overlay options vary when an overlay
\* is asked for
PlanFields ==
    [size : {None, Some(0), Some(800)}, square : BOOLEAN,
     strip_exif : BOOLEAN, overlay_url : {Some("http://src/logo")},
     overlay_scale : {-15, 0, 15, 29}, overlay_safe_zone : BOOLEAN,
     overlay_opacity : {50, 100}]
    \cup [size : {None, Some(0), Some(800)}, square : BOOLEAN,
          strip_exif : BOOLEAN]

\* what the storage key and the response are built from
StorageFields ==
    [size : {None, Some(0), Some(800)}, upload_s3 : BOOLEAN,
     key_name : {None, Some("a/k.jpg")},
     key_prefix : {None, Some(""), Some("/"), Some("/ev/1/")},
     return_binary : BOOLEAN]

\* every request varies the common fields and either the plan fields or the
\* storage fields; the fields it does not vary keep their form defaults
Requests ==
    {c @@ v @@ FormDefaults : c \in CommonFields,
                              v \in PlanFields \cup StorageFields}

(***************************************************************************)
(* The checks at the head of convert().                                    *)
(***************************************************************************)
\* variants of the checks: a token check that only wants some token, and a
\* source check that wants exactly one source
AuthorizedAnyToken(r) == r.token # ""
HasSourceExactlyOne(r) == TruthyObj(r.file) # TruthyStr(r.src_url)

Authorized(r) == r.token = AUTH_TOKEN
HasSource(r) == ~(~TruthyObj(r.file) /\ ~TruthyStr(r.src_url))
SupportedFormat(r) == r.format \in DOMAIN MIME_TYPES

(***************************************************************************)
(* The ImageMagick command.                                                *)
(***************************************************************************)
DefaultTargetWidth == 1920
MinLogoWidth == 10
Max(a, b) == IF a >= b THEN a ELSE b

TargetWidth(r) == IF TruthyInt(r.size) THEN r.size[1] ELSE DefaultTargetWidth

LogoWidth(r) ==
    Max(ScaledWidth(TargetWidth(r), r.overlay_scale), MinLogoWidth)

\* variant: the square flag is ignored
ResizeArgsIgnoresSquare(r) ==
    IF TruthyInt(r.size)
    THEN LET sz == ToString(r.size[1])
         IN  <<"-filter", "Lanczos", "-resize", sz \o "x" \o sz \o ">">>
    ELSE <<>>

ResizeArgs(r) ==
    IF TruthyInt(r.size)
    THEN LET sz == ToString(r.size[1])
         IN  <<"-filter", "Lanczos">>
             \o (IF r.square
                 THEN <<"-resize", sz \o "x" \o sz \o "^",
                        "-gravity", "center", "-extent", sz \o "x" \o sz>>
                 ELSE <<"-resize", sz \o "x" \o sz \o ">">>)
    ELSE <<>>

OverlayArgs(r, overlay_path, has_overlay) ==
    IF has_overlay
    THEN <<"(", overlay_path, "-resize", ToString(LogoWidth(r)) \o "x">>
         \o (IF r.overlay_opacity < 100
             THEN <<"-channel", "A", "-evaluate", "multiply",
                    FactorStr(r.overlay_opacity)>>
             ELSE <<>>)
         \o <<")",
              "-gravity", IF r.overlay_safe_zone THEN "South" ELSE "SouthEast",
              "-geometry", IF r.overlay_safe_zone THEN "+0+250" ELSE "+50+50",
              "-composite">>
    ELSE <<>>

EncodingArgs(r) ==
    IF r.format \in {"jpg", "jpeg"}
    THEN <<"-quality", ToString(r.q), "-interlace", "Plane">>
    ELSE IF r.format = "avif"
    THEN <<"-quality", ToString(r.q), "-define", "heic:speed=" \o r.avif_speed>>
    ELSE IF r.format = "webp"
    THEN <<"-quality", ToString(r.q), "-define", "webp:method=6">>
    ELSE <<>>

OutputFilename(r) == "output." \o r.format

\* variant: the sharpening pass is emitted before the resize
BuildCmdSharpenFirst(r, dir, has_ov) ==
    <<"magick", dir \o "/source", "-limit", "thread", MAGICK_THREAD_LIMIT,
      "-auto-orient", "-colorspace", "sRGB">>
    \o (IF r.strip_exif THEN <<"-strip">> ELSE <<>>)
    \o <<"-unsharp", "0x0.75+0.75+0.008">>
    \o ResizeArgs(r)
    \o OverlayArgs(r, dir \o "/overlay_source", has_ov)
    \o EncodingArgs(r)
    \o <<dir \o "/" \o OutputFilename(r)>>

BuildCmd(r, dir, has_ov) ==
    <<"magick", dir \o "/source", "-limit", "thread", MAGICK_THREAD_LIMIT,
      "-auto-orient", "-colorspace", "sRGB">>
    \o (IF r.strip_exif THEN <<"-strip">> ELSE <<>>)
    \o ResizeArgs(r)
    \o OverlayArgs(r, dir \o "/overlay_source", has_ov)
    \o <<"-unsharp", "0x0.75+0.75+0.008">>
    \o EncodingArgs(r)
    \o <<dir \o "/" \o OutputFilename(r)>>

(***************************************************************************)
(* Storage key and public URL.                                             *)
(***************************************************************************)
InHashLen == 32
OutHashLen == 8

\* variants: the prefix is used as given; the name is built from the input
\* digest alone
GenerateNameNoTrim(in_hash, out_hash, r) ==
    LET size_tag  == IF TruthyInt(r.size) THEN ToString(r.size[1]) ELSE "orig"
        clean_ext == Replace(r.format, "jpeg", "jpg")
        generated_name ==
            SubSeq(in_hash, 1, InHashLen) \o "_" \o size_tag \o "_"
            \o SubSeq(out_hash, 1, OutHashLen) \o "." \o clean_ext
    IN  IF TruthyStr(r.key_prefix)
        THEN r.key_prefix[1] \o "/" \o generated_name
        ELSE generated_name

GenerateNameInputOnly(in_hash, out_hash, r) ==
    LET size_tag  == IF TruthyInt(r.size) THEN ToString(r.size[1]) ELSE "orig"
        clean_ext == Replace(r.format, "jpeg", "jpg")
        generated_name ==
            SubSeq(in_hash, 1, InHashLen) \o "_" \o size_tag \o "_"
            \o SubSeq(in_hash, 1, OutHashLen) \o "." \o clean_ext
    IN  IF TruthyStr(r.key_prefix)
        THEN Strip(r.key_prefix[1], "/") \o "/" \o generated_name
        ELSE generated_name

GenerateName(in_hash, out_hash, r) ==
    LET size_tag  == IF TruthyInt(r.size) THEN ToString(r.size[1]) ELSE "orig"
        clean_ext == Replace(r.format, "jpeg", "jpg")
        generated_name ==
            SubSeq(in_hash, 1, InHashLen) \o "_" \o size_tag \o "_"
            \o SubSeq(out_hash, 1, OutHashLen) \o "." \o clean_ext
    IN  IF TruthyStr(r.key_prefix)
        THEN Strip(r.key_prefix[1], "/") \o "/" \o generated_name
        ELSE generated_name

\* the key uploaded under: the caller's, or the generated one
ResolveKey(r, in_bytes, out_bytes) ==
    IF TruthyStr(r.key_name) THEN r.key_name[1]
    ELSE GenerateName(calculate_sha256(in_bytes), calculate_sha256(out_bytes), r)

PublicUrl(key) == RStrip(PUBLIC_BASE_URL, "/") \o "/" \o LStrip(key, "/")

(***************************************************************************)
(* State.                                                                  *)
(*   pc            where the handler of the current request stands         *)
(*   req           the request being handled                               *)
(*   nreq          requests received so far (names the next request_id)    *)
(*   tmpd          the request's scratch directory, once created           *)
(*   tasks         directories whose cleanup is registered as a background *)
(*                 task of the current request                             *)
(*   disk          scratch directories that exist                          *)
(*   input, output the bytes at input_path and at output_path              *)
(*   has_overlay, cmd, key_name, response_data   locals of convert()       *)
(*   response      what the client is answered                             *)
(*   calls         what the current request did outside the process        *)
(*                 ("stored": the object storage took the upload)          *)
(*   prev          input, output and key of the previous run of the        *)
(*                 request (the request is re-sent unchanged)              *)
(***************************************************************************)
VARIABLES pc, req, nreq, tmpd, tasks, disk, input, output, has_overlay, cmd,
          key_name, response_data, response, calls, prev

vars == <<pc, req, nreq, tmpd, tasks, disk, input, output, has_overlay, cmd,
          key_name, response_data, response, calls, prev>>

Init ==
    /\ pc = "idle"
    /\ req = FormDefaults
    /\ nreq = 0
    /\ tmpd = None
    /\ tasks = {}
    /\ disk = {}
    /\ input = None
    /\ output = None
    /\ has_overlay = FALSE
    /\ cmd = <<>>
    /\ key_name = None
    /\ response_data = None
    /\ response = None
    /\ calls = {}
    /\ prev = None

\* a call of convert(): fresh locals, key_name bound to the form field
Enter(r) ==
    /\ req' = r
    /\ nreq' = nreq + 1
    /\ pc' = "received"
    /\ tmpd' = None
    /\ tasks' = {}
    /\ input' = None
    /\ output' = None
    /\ has_overlay' = FALSE
    /\ cmd' = <<>>
    /\ key_name' = r.key_name
    /\ response_data' = None
    /\ response' = None
    /\ calls' = {}
    /\ UNCHANGED disk

Receive ==
    /\ pc = "idle"
    /\ \E r \in Requests : Enter(r)
    /\ prev' = None

\* the client sends the same request again
Resend ==
    /\ pc = "done"
    /\ nreq < MaxRequests
    /\ Enter(req)
    /\ prev' = Some([input |-> input, output |-> output, key |-> key_name])

HTTPException(status, detail) ==
    [kind |-> "error", status_code |-> status, detail |-> detail]

Raise(status, detail) ==
    /\ pc' = "raised"
    /\ response' = HTTPException(status, detail)

RejectUnauthorized ==
    /\ pc = "received"
    /\ ~Authorized(req)
    /\ Raise(401, "Unauthorized")
    /\ UNCHANGED <<req, nreq, tmpd, tasks, disk, input, output, has_overlay,
                   cmd, key_name, response_data, calls, prev>>

RejectNoSource ==
    /\ pc = "received"
    /\ Authorized(req)
    /\ ~HasSource(req)
    /\ Raise(400, "Provide 'file' or 'src_url'")
    /\ UNCHANGED <<req, nreq, tmpd, tasks, disk, input, output, has_overlay,
                   cmd, key_name, response_data, calls, prev>>

RejectFormat ==
    /\ pc = "received"
    /\ Authorized(req)
    /\ HasSource(req)
    /\ ~SupportedFormat(req)
    /\ Raise(400, "Format unsupported: " \o req.format)
    /\ UNCHANGED <<req, nreq, tmpd, tasks, disk, input, output, has_overlay,
                   cmd, key_name, response_data, calls, prev>>

\* request_id, tmpd.mkdir(), background_tasks.add_task(cleanup_temp_dir, tmpd)
Setup ==
    /\ pc = "received"
    /\ Authorized(req)
    /\ HasSource(req)
    /\ SupportedFormat(req)
    /\ LET dir == "/tmp/uuid-" \o ToString(nreq)
       IN  /\ tmpd' = Some(dir)
           /\ disk' = disk \cup {dir}
           /\ tasks' = {dir}
    /\ calls' = calls \cup {"mkdir"}
    /\ pc' = "source"
    /\ UNCHANGED <<req, nreq, input, output, has_overlay, cmd, key_name,
                   response_data, response, prev>>

\* 1. Download Source: the uploaded file wins over src_url
CopyUpload ==
    /\ pc = "source"
    /\ TruthyObj(req.file)
    /\ input' = req.file
    /\ calls' = calls \cup {"read_upload"}
    /\ pc' = "overlay"
    /\ UNCHANGED <<req, nreq, tmpd, tasks, disk, output, has_overlay, cmd,
                   key_name, response_data, response, prev>>

FetchSource ==
    /\ pc = "source"
    /\ ~TruthyObj(req.file)
    /\ TruthyStr(req.src_url)
    /\ \E bytes \in Sources : input' = Some(bytes)
    /\ calls' = calls \cup {"fetch_source"}
    /\ pc' = "overlay"
    /\ UNCHANGED <<req, nreq, tmpd, tasks, disk, output, has_overlay, cmd,
                   key_name, response_data, response, prev>>

\* requests raises (network error, timeout, raise_for_status): caught by
\* "except Exception" and re-raised as HTTPException(500)
FetchSourceFails ==
    /\ pc = "source"
    /\ ~TruthyObj(req.file)
    /\ TruthyStr(req.src_url)
    /\ calls' = calls \cup {"fetch_source"}
    /\ Raise(500, "source fetch failed")
    /\ UNCHANGED <<req, nreq, tmpd, tasks, disk, input, output, has_overlay,
                   cmd, key_name, response_data, prev>>

\* 2. Processing Setup and the command, by the outcome of the overlay fetch
Plan(fetched) ==
    /\ has_overlay' = fetched
    /\ cmd' = BuildCmd(req, tmpd[1], fetched)
    /\ pc' = "engine"
    /\ UNCHANGED <<req, nreq, tmpd, tasks, disk, input, output, key_name,
                   response_data, response, prev>>

NoOverlay ==
    /\ pc = "overlay"
    /\ ~TruthyStr(req.overlay_url)
    /\ UNCHANGED calls
    /\ Plan(FALSE)

OverlayFetched ==
    /\ pc = "overlay"
    /\ TruthyStr(req.overlay_url)
    /\ calls' = calls \cup {"fetch_overlay"}
    /\ Plan(TRUE)

\* variant: a failed overlay fetch is not caught and fails the request
OverlayFailedAborts ==
    /\ pc = "overlay"
    /\ TruthyStr(req.overlay_url)
    /\ calls' = calls \cup {"fetch_overlay"}
    /\ Raise(500, "overlay fetch failed")
    /\ UNCHANGED <<req, nreq, tmpd, tasks, disk, input, output, has_overlay,
                   cmd, key_name, response_data, prev>>

\* the fetch raises: logged as a warning, has_overlay stays False
OverlayFailed ==
    /\ pc = "overlay"
    /\ TruthyStr(req.overlay_url)
    /\ calls' = calls \cup {"fetch_overlay"}
    /\ Plan(FALSE)

\* subprocess.run(cmd): exit status 0 and the bytes written to output_path
EngineSucceeds ==
    /\ pc = "engine"
    /\ \E bytes \in Outputs : output' = Some(bytes)
    /\ calls' = calls \cup {"engine"}
    /\ response_data' = Some([ok |-> TRUE, format |-> req.format])
    /\ pc' = "respond"
    /\ UNCHANGED <<req, nreq, tmpd, tasks, disk, input, has_overlay, cmd,
                   key_name, response, prev>>

EngineFails ==
    /\ pc = "engine"
    /\ calls' = calls \cup {"engine"}
    /\ Raise(500, "Processing Engine Error: magick: stderr")
    /\ UNCHANGED <<req, nreq, tmpd, tasks, disk, input, output, has_overlay,
                   cmd, key_name, response_data, prev>>

\* if upload_s3: name the object, upload_to_s3 returns the public URL
UploadSucceeds ==
    /\ pc = "respond"
    /\ req.upload_s3
    /\ LET key == ResolveKey(req, input[1], output[1])
       IN  /\ key_name' = Some(key)
           /\ response_data' =
                  Some([ok |-> TRUE, format |-> req.format,
                        url |-> PublicUrl(key), key |-> key])
    /\ calls' = calls \cup {"upload", "stored"}
    /\ pc' = "return"
    /\ UNCHANGED <<req, nreq, tmpd, tasks, disk, input, output, has_overlay,
                   cmd, response, prev>>

\* variant: a failed upload is not caught and fails the request
UploadFailsAborts ==
    /\ pc = "respond"
    /\ req.upload_s3
    /\ key_name' = Some(ResolveKey(req, input[1], output[1]))
    /\ calls' = calls \cup {"upload"}
    /\ Raise(500, "Upload failed")
    /\ UNCHANGED <<req, nreq, tmpd, tasks, disk, input, output, has_overlay,
                   cmd, response_data, prev>>

\* s3.upload_file raises: upload_to_s3 logs and returns None
UploadFails ==
    /\ pc = "respond"
    /\ req.upload_s3
    /\ key_name' = Some(ResolveKey(req, input[1], output[1]))
    /\ response_data' =
           Some([ok |-> TRUE, format |-> req.format, error |-> "Upload failed"])
    /\ calls' = calls \cup {"upload"}
    /\ pc' = "return"
    /\ UNCHANGED <<req, nreq, tmpd, tasks, disk, input, output, has_overlay,
                   cmd, response, prev>>

AtReturn == pc = "return" \/ (pc = "respond" /\ ~req.upload_s3)

ReturnBinary ==
    /\ AtReturn
    /\ req.return_binary
    /\ response' =
           [kind |-> "file", status_code |-> 200,
            path |-> tmpd[1] \o "/" \o OutputFilename(req),
            media_type |-> MIME_TYPES[req.format],
            filename |-> IF TruthyStr(key_name)
                         THEN LastSegment(key_name[1], "/")
                         ELSE OutputFilename(req)]
    /\ pc' = "returned"
    /\ UNCHANGED <<req, nreq, tmpd, tasks, disk, input, output, has_overlay,
                   cmd, key_name, response_data, calls, prev>>

ReturnJSON ==
    /\ AtReturn
    /\ ~req.return_binary
    /\ response' =
           [kind |-> "json", status_code |-> 200, content |-> response_data[1]]
    /\ pc' = "returned"
    /\ UNCHANGED <<req, nreq, tmpd, tasks, disk, input, output, has_overlay,
                   cmd, key_name, response_data, calls, prev>>

\* The endpoint returned a response: the framework attaches the request's
\* background tasks to it and runs them once it is sent; cleanup_temp_dir
\* removes the directory.
SendResponse ==
    /\ pc = "returned"
    /\ disk' = disk \ tasks
    /\ tasks' = {}
    /\ pc' = "done"
    /\ UNCHANGED <<req, nreq, tmpd, input, output, has_overlay, cmd,
                   key_name, response_data, response, calls, prev>>

\* The endpoint raised: the framework's exception handler answers with a
\* response of its own; the background tasks registered through the
\* BackgroundTasks parameter belong to the response the endpoint never
\* returned and are not run.
SendError ==
    /\ pc = "raised"
    /\ tasks' = {}
    /\ pc' = "done"
    /\ UNCHANGED <<req, nreq, tmpd, disk, input, output, has_overlay, cmd,
                   key_name, response_data, response, calls, prev>>

Next ==
    \/ Receive
    \/ Resend
    \/ RejectUnauthorized
    \/ RejectNoSource
    \/ RejectFormat
    \/ Setup
    \/ CopyUpload
    \/ FetchSource
    \/ FetchSourceFails
    \/ NoOverlay
    \/ OverlayFetched
    \/ OverlayFailed
    \/ EngineSucceeds
    \/ EngineFails
    \/ UploadSucceeds
    \/ UploadFails
    \/ ReturnBinary
    \/ ReturnJSON
    \/ SendResponse
    \/ SendError

Spec == Init /\ [][Next]_vars

(***************************************************************************)
(* Vocabulary of the properties.                                           *)
(***************************************************************************)
Answered == pc \in {"raised", "returned", "done"}
Count(seq, tok) == Cardinality({i \in 1..Len(seq) : seq[i] = tok})
IndexOf(seq, tok) ==
    IF Count(seq, tok) = 0 THEN 0
    ELSE CHOOSE i \in 1..Len(seq) :
             seq[i] = tok /\ \A j \in 1..(i - 1) : seq[j] # tok
HasRun(seq, run) ==
    \E i \in 1..(Len(seq) - Len(run) + 1) :
        SubSeq(seq, i, i + Len(run) - 1) = run
FilePresent == req.file # None
UrlPresent == req.src_url # None /\ req.src_url[1] # ""

C2_UnauthorizedShortCircuits ==
    (pc # "idle" /\ req.token # AUTH_TOKEN)
    => /\ pc \in {"received", "raised", "done"}
       /\ tmpd = None
       /\ disk = {}
       /\ calls = {}
       /\ input = None /\ output = None /\ cmd = <<>>
       /\ Answered => response = HTTPException(401, "Unauthorized")

C2_UnauthorizedAnswered ==
    /\ pc = "done"
    /\ req.token # AUTH_TOKEN
    /\ ~FilePresent /\ ~UrlPresent
    /\ req.format = "bmp"
    /\ response.status_code = 401
    /\ calls = {}

(***************************************************************************)
(* The key the claims describe, written out from its parts.                *)
(***************************************************************************)
KeyUploaded ==
    /\ pc \in {"return", "returned", "done"}
    /\ req.upload_s3
    /\ "upload" \in calls
DerivedKey == KeyUploaded /\ (req.key_name = None \/ req.key_name[1] = "")
PrefixGiven == req.key_prefix # None /\ req.key_prefix[1] # ""
InDigest == calculate_sha256(input[1])
OutDigest == calculate_sha256(output[1])
Extension == IF req.format = "jpeg" THEN "jpg" ELSE req.format
KeyWithTag(tag) ==
    (IF PrefixGiven THEN Strip(req.key_prefix[1], "/") \o "/" ELSE "")
    \o SubSeq(InDigest, 1, 32) \o "_" \o tag \o "_"
    \o SubSeq(OutDigest, 1, 8) \o "." \o Extension

(***************************************************************************)
(* C3 (as claimed): the derived key is                                     *)
(* {prefix/}{input digest[:32]}_{size tag}_{output digest[:8]}.{ext} with  *)
(* the size tag the requested size whenever a size is given, and "orig"    *)
(* only when none is.                                                      *)
(***************************************************************************)
C3_KeyFormatSizeGiven ==
    DerivedKey
    => key_name = Some(KeyWithTag(IF req.size = None THEN "orig"
                                  ELSE ToString(req.size[1])))

(***************************************************************************)
(* C3 (amended): the derived key is                                        *)
(* {prefix/}{input digest[:32]}_{size tag}_{output digest[:8]}.{ext}; the  *)
(* size tag is the requested size when it is not zero and "orig" when the  *)
(* size is absent or zero; ext is the format with jpeg mapped to jpg; the  *)
(* prefix, when a non-empty one is given, is trimmed of leading and        *)
(* trailing slashes and followed by "/".  The key is therefore a function  *)
(* of the two digests, the size, the format and the prefix.                *)
(***************************************************************************)
C3_KeyFormat ==
    DerivedKey
    => key_name = Some(KeyWithTag(IF req.size = None \/ req.size[1] = 0
                                  THEN "orig" ELSE ToString(req.size[1])))

C3_ZeroSizeKey ==
    /\ DerivedKey
    /\ req.size = Some(0)
    /\ req.format = "jpeg"
    /\ req.key_prefix = Some("/ev/1/")
    /\ input = Some("abc") /\ output = Some("out-1")
    /\ key_name = Some("ev/1/ba7816bf8f01cfea414140de5dae2223_orig_f44c30d0.jpg")

(***************************************************************************)
(* C4 (as claimed): a request sent twice with byte-identical input gets    *)
(* the same derived key both times, whatever the engine wrote.             *)
(***************************************************************************)
Rerun ==
    /\ DerivedKey
    /\ prev # None
    /\ prev[1].output # None
    /\ prev[1].key # None
    /\ prev[1].input = input

C4_SameInputSameKey == Rerun => key_name = prev[1].key

(***************************************************************************)
(* C4 (amended): a request sent twice with byte-identical input gets the   *)
(* same derived key both times exactly when the first 8 hex digits of the  *)
(* SHA-256 of the engine's output are the same in both runs; the two keys  *)
(* differ when those digits differ.                                        *)
(***************************************************************************)
C4_SameKeyIffSameOutputDigest ==
    Rerun
    => (key_name = prev[1].key
        <=> SubSeq(calculate_sha256(prev[1].output[1]), 1, 8)
            = SubSeq(OutDigest, 1, 8))

C4_RerunSameOutput ==
    /\ Rerun
    /\ nreq = 2
    /\ prev[1].output = output
    /\ key_name = prev[1].key
    /\ pc = "done"

(***************************************************************************)
(* C5 (as claimed): once the engine has exited 0 and upload is requested,  *)
(* the response is a success and tells the caller the upload outcome: url  *)
(* and key when the upload succeeded, an error field when it failed.       *)
(***************************************************************************)
Reports(fields) ==
    /\ response.kind = "json"
    /\ fields \subseteq DOMAIN response.content

C6_WorkspaceRemoved ==
    pc = "done" => (disk = {} /\ (tmpd # None => tmpd[1] \notin disk))

(***************************************************************************)
(* C7: when an overlay URL is given and its fetch fails, the request goes  *)
(* on: the command has no overlay sub-operation and is the command of the  *)
(* same request without an overlay URL, nothing but the engine can still   *)
(* fail the request, and a request whose engine exits 0 is answered 200.   *)
(***************************************************************************)
OverlayFetchFailed ==
    /\ req.overlay_url # None /\ req.overlay_url[1] # ""
    /\ "fetch_overlay" \in calls
    /\ ~has_overlay

OverlayTokens ==
    {"(", ")", "-composite", "-geometry", "-channel", "-evaluate",
     "multiply", "South", "SouthEast"}

C7_OverlayFailureDegrades ==
    /\ OverlayFetchFailed => cmd # <<>>
    /\ (OverlayFetchFailed /\ pc = "engine")
       => /\ cmd = BuildCmd([req EXCEPT !.overlay_url = None], tmpd[1], FALSE)
          /\ \A i \in 1..Len(cmd) :
                 cmd[i] \notin OverlayTokens \cup {tmpd[1] \o "/overlay_source"}
          /\ Count(cmd, "-resize")
             = (IF req.size \in {None, Some(0)} THEN 0 ELSE 1)
          /\ Count(cmd, "-gravity")
             = (IF req.size \notin {None, Some(0)} /\ req.square THEN 1 ELSE 0)
    /\ (OverlayFetchFailed /\ Answered)
       => /\ response.kind = "error" => ("engine" \in calls /\ output = None)
          /\ output # None => response.status_code = 200

C7_DegradedAnswer ==
    /\ pc = "done"
    /\ OverlayFetchFailed
    /\ req.size = Some(800)
    /\ response.status_code = 200
    /\ Count(cmd, "-composite") = 0

(***************************************************************************)
(* C8 (as claimed): with square=true the command holds a cover-fit resize  *)
(* and a centered extent whatever the size is (absent, zero or positive);  *)
(* and a request with no target size has no resize of the image.           *)
(***************************************************************************)
Planned == pc = "engine"
ImageArgs ==
    SubSeq(cmd, 1, IF has_overlay THEN IndexOf(cmd, "(") - 1
                   ELSE IndexOf(cmd, "-unsharp") - 1)
HasCoverResize ==
    \E i \in 1..(Len(ImageArgs) - 1) :
        /\ ImageArgs[i] = "-resize"
        /\ SubSeq(ImageArgs[i + 1], Len(ImageArgs[i + 1]), Len(ImageArgs[i + 1])) = "^"
HasCenteredExtent ==
    \E i \in 1..(Len(ImageArgs) - 3) :
        SubSeq(ImageArgs, i, i + 2) = <<"-gravity", "center", "-extent">>

C8_SquareAlwaysCrops ==
    /\ (Planned /\ req.square) => (HasCoverResize /\ HasCenteredExtent)
    /\ (Planned /\ req.size = None) => Count(ImageArgs, "-resize") = 0

(***************************************************************************)
(* C8 (amended): with square=true and a size that is given and not zero,   *)
(* the command holds "-resize SxS^" followed by "-gravity center -extent   *)
(* SxS"; with the size absent or zero the command has no resize and no     *)
(* extent of the image, square or not.                                     *)
(***************************************************************************)
C8_SquareCropsWhenSized ==
    /\ (Planned /\ req.square /\ req.size \notin {None, Some(0)})
       => LET sz == ToString(req.size[1])
          IN  /\ HasRun(ImageArgs,
                        <<"-resize", sz \o "x" \o sz \o "^", "-gravity",
                          "center", "-extent", sz \o "x" \o sz>>)
              /\ Count(ImageArgs, "-resize") = 1
              /\ Count(ImageArgs, "-extent") = 1
    /\ (Planned /\ req.size \in {None, Some(0)})
       => /\ Count(ImageArgs, "-resize") = 0
          /\ Count(ImageArgs, "-extent") = 0
          /\ Count(ImageArgs, "-filter") = 0

C8_SquarePlanned ==
    /\ pc = "engine"
    /\ req.square
    /\ req.size = Some(800)
    /\ HasRun(cmd, <<"-resize", "800x800^", "-gravity", "center", "-extent",
                     "800x800">>)

(***************************************************************************)
(* C9: when the overlay was fetched, the logo width in the command is      *)
(* max(10, reference width * overlay_scale / 100 truncated), the reference *)
(* width being the size when one is given and 1920 otherwise.              *)
(***************************************************************************)
TruncDiv(a, b) == IF a >= 0 THEN a \div b ELSE -((-a) \div b)
ReferenceWidth == IF req.size \in {None, Some(0)} THEN 1920 ELSE req.size[1]
ExactLogoWidth ==
    LET w == TruncDiv(ReferenceWidth * req.overlay_scale, 100)
    IN  IF w >= 10 THEN w ELSE 10

C9_LogoWidthExact ==
    (Planned /\ has_overlay)
    => HasRun(cmd, <<tmpd[1] \o "/overlay_source", "-resize",
                     ToString(ExactLogoWidth) \o "x">>)

(***************************************************************************)
(* C10: the command lists auto-orient, colorspace, strip (optional),       *)
(* resize with extent (optional), overlay composite (optional), sharpen,   *)
(* encoder directives, output path, in this order; auto-orient, colorspace *)
(* and sharpen occur exactly once; sharpen follows every resize and        *)
(* overlay step and precedes every encoder directive.                      *)
(***************************************************************************)
Positions(tok) == {i \in 1..Len(cmd) : cmd[i] = tok}
Before(toksA, toksB) ==
    \A a \in toksA, b \in toksB :
        \A i \in Positions(a), j \in Positions(b) : i < j

C10_PlanOrder ==
    Planned
    => /\ Count(cmd, "-auto-orient") = 1
       /\ Count(cmd, "-colorspace") = 1
       /\ Count(cmd, "-unsharp") = 1
       /\ Before({"-auto-orient"}, {"-colorspace"})
       /\ Before({"-colorspace"}, {"-strip", "-filter", "-resize", "-extent",
                                   "(", "-composite", "-unsharp"})
       /\ Before({"-strip"}, {"-filter", "-resize", "-extent", "(",
                              "-composite", "-unsharp"})
       /\ Before({"-filter"}, {"-resize"})
       /\ Before({"-extent"}, {"(", "-composite", "-unsharp"})
       /\ Before({"("}, {")"}) /\ Before({")"}, {"-composite"})
       /\ Before({"-resize", "-extent", "-composite", "-gravity", "-geometry"},
                 {"-unsharp"})
       /\ Before({"-unsharp"}, {"-quality", "-interlace", "-define"})
       /\ cmd[Len(cmd)] = tmpd[1] \o "/output." \o req.format
       /\ cmd[IndexOf(cmd, "-unsharp") + 1] = "0x0.75+0.75+0.008"
       /\ req.strip_exif <=> Count(cmd, "-strip") = 1
       /\ has_overlay <=> Count(cmd, "-composite") = 1
       /\ (req.format \in {"jpg", "jpeg", "webp", "avif"})
          <=> Count(cmd, "-quality") = 1

C10_FullPlan ==
    /\ pc = "engine"
    /\ req.strip_exif /\ req.square /\ req.size = Some(800) /\ has_overlay
    /\ req.format = "avif"
    /\ req.overlay_opacity = 50
    /\ cmd = <<"magick", "/tmp/uuid-1/source", "-limit", "thread", "1",
               "-auto-orient", "-colorspace", "sRGB", "-strip",
               "-filter", "Lanczos", "-resize", "800x800^",
               "-gravity", "center", "-extent", "800x800",
               "(", "/tmp/uuid-1/overlay_source", "-resize", "120x",
               "-channel", "A", "-evaluate", "multiply", "0.5", ")",
               "-gravity", "South", "-geometry", "+0+250", "-composite",
               "-unsharp", "0x0.75+0.75+0.008",
               "-quality", "80", "-define", "heic:speed=6",
               "/tmp/uuid-1/output.avif">>

=============================================================================
